---- MODULE Spec2Model ----
(***************************************************************************)
(* Verification model of ryanharrison554/enigma: the Enigma simulator      *)
(* (enigma/enigma.py), the crib/menu utilities (enigma/utils.py) and the   *)
(* Bombe (enigma/bombe.py).  Letters are one-character strings, letter     *)
(* codes are the integers 0..25, texts are sequences of letters.           *)
(***************************************************************************)
EXTENDS Integers, Sequences, FiniteSets, TLC

\* ------------------------------------------------------------------------
\* Bounds of the model
\* ------------------------------------------------------------------------
MaxN == 3          \* longest run of step() calls that is tracked
MaxTextLen == 2    \* longest generated text handed to encrypt()
MaxCribLen == 2    \* longest generated crib
MaxCipherLen == 3  \* longest generated ciphertext
MaxCells == 2      \* rotor-start triples a Bombe run sweeps

\* ------------------------------------------------------------------------
\* enigma.py: alphabet, rotor and reflector tables
\* ------------------------------------------------------------------------
ALPHABET ==
  <<"A","B","C","D","E","F","G","H","I","J","K","L","M",
    "N","O","P","Q","R","S","T","U","V","W","X","Y","Z">>

N == Len(ALPHABET)

Letters == {ALPHABET[i] : i \in 1..N}

\* str.index for every letter of the alphabet, 0-based
IndexTable == [l \in Letters |-> CHOOSE i \in 0..(N-1) : ALPHABET[i+1] = l]

\* ALPHABET.index(letter)
Index(letter) == IndexTable[letter]

\* ALPHABET[code]
Letter(code) == ALPHABET[code + 1]

\* Python's x % N for a possibly negative x
Mod(x) == ((x % N) + N) % N

ROTORS ==
  [ I   |-> [letters |-> <<"E","K","M","F","L","G","D","Q","V","Z","N","T","O",
                           "W","Y","H","X","U","S","P","A","I","B","R","C","J">>,
             turnover_letters |-> <<"Q">>],
    II  |-> [letters |-> <<"A","J","D","K","S","I","R","U","X","B","L","H","W",
                           "T","M","C","Q","G","Z","N","P","Y","F","V","O","E">>,
             turnover_letters |-> <<"E">>],
    III |-> [letters |-> <<"B","D","F","H","J","L","C","P","R","T","X","V","Z",
                           "N","Y","E","I","W","G","A","K","M","U","S","Q","O">>,
             turnover_letters |-> <<"V">>],
    IV  |-> [letters |-> <<"E","S","O","V","P","Z","J","A","Y","Q","U","I","R",
                           "H","X","L","N","F","T","G","K","D","C","M","W","B">>,
             turnover_letters |-> <<"J">>],
    V   |-> [letters |-> <<"V","Z","B","R","G","I","T","Y","U","P","S","D","N",
                           "H","L","X","A","W","M","J","Q","O","F","E","C","K">>,
             turnover_letters |-> <<"Z">>] ]

REFLECTORS ==
  [ B |-> [reflections_letters |->
             <<"Y","R","U","H","Q","S","L","D","P","X","N","G","O",
               "K","M","I","E","B","F","Z","C","W","V","J","A","T">>] ]

\* Rotor.__init__: wiring[i] = ALPHABET.index(letters[i]), 0-based tables
wiring ==
  [name \in DOMAIN ROTORS |->
     [i \in 0..(N-1) |-> Index(ROTORS[name].letters[i+1])]]

\* Rotor.__init__: wiring_inverse[pin_out] = wiring.index(pin_out)
wiring_inverse ==
  [name \in DOMAIN ROTORS |->
     [pin_out \in 0..(N-1) |->
        CHOOSE i \in 0..(N-1) : wiring[name][i] = pin_out]]

\* Rotor.__init__: turnovers = [ALPHABET.index(turn) for turn in turnovers]
turnovers ==
  [name \in DOMAIN ROTORS |->
     {Index(ROTORS[name].turnover_letters[i]) :
        i \in 1..Len(ROTORS[name].turnover_letters)}]

\* Reflector.__init__: reflections[i] = ALPHABET.index(reflections[i])
reflections ==
  [name \in DOMAIN REFLECTORS |->
     [i \in 0..(N-1) |-> Index(REFLECTORS[name].reflections_letters[i+1])]]

\* Reflector.reflect
reflect(name, pin_in) == reflections[name][pin_in]

\* ------------------------------------------------------------------------
\* enigma.py: class Rotor.  A rotor is a record
\*   [name, ring_setting, offset, position]
\* ------------------------------------------------------------------------
\* Rotor.__init__
NewRotor(name) ==
  [name |-> name, ring_setting |-> 0, offset |-> 0, position |-> 0]

\* Rotor.configure
rotor_configure(r, ring_setting_letter, offset_letter) ==
  [r EXCEPT !.ring_setting = Index(ring_setting_letter),
            !.offset = Index(offset_letter),
            !.position = Mod(Index(ring_setting_letter) - Index(offset_letter))]

\* Rotor.step
rotor_step(r) == [r EXCEPT !.position = Mod(r.position + 1)]

\* Rotor.unstep
rotor_unstep(r) == [r EXCEPT !.position = Mod(r.position - 1)]

\* Rotor.turnover
turnover(r) == r.position \in turnovers[r.name]

\* Rotor.did_turnover
did_turnover(r) == Mod(r.position - 1) \in turnovers[r.name]

\* Rotor.signal_forward
signal_forward(r, sig_in) ==
  LET pin_in == Mod(sig_in + r.position)
      pin_out == wiring[r.name][pin_in]
  IN  Mod(pin_out - r.position)

\* Rotor.signal_backward
signal_backward(r, sig_in) ==
  LET pin_in == Mod(sig_in + r.position)
      pin_out == wiring_inverse[r.name][pin_in]
  IN  Mod(pin_out - r.position)

\* Rotor.copy: a new rotor configured with the ring setting and the offset
rotor_copy(r) ==
  rotor_configure(NewRotor(r.name), Letter(r.ring_setting), Letter(r.offset))

\* ------------------------------------------------------------------------
\* enigma.py: class EnigmaMachine, as functions of the rotor list
\* (rs[1] is rotors[0], the fastest rotor; rs[Len(rs)] is rotors[-1])
\* ------------------------------------------------------------------------
\* Python's range(start, stop, -1) as a sequence
RangeDown(start, stop) ==
  [i \in 1..(IF start > stop THEN start - stop ELSE 0) |-> start - (i - 1)]

\* body of the middle-rotor loop of step(), r is the 0-based index
StepMiddle(rs, r) ==
  IF turnover(rs[r]) \/ turnover(rs[r+1])
  THEN [rs EXCEPT ![r+1] = rotor_step(rs[r+1])]
  ELSE rs

\* body of the middle-rotor loop of unstep(), r is the 0-based index
UnstepMiddle(rs, r) ==
  IF turnover(rs[r]) \/ did_turnover(rs[r+1])
  THEN [rs EXCEPT ![r+1] = rotor_unstep(rs[r+1])]
  ELSE rs

RECURSIVE StepLoop(_, _)
StepLoop(rs, range) ==
  IF range = <<>> THEN rs
  ELSE StepLoop(StepMiddle(rs, Head(range)), Tail(range))

RECURSIVE UnstepLoop(_, _)
UnstepLoop(rs, range) ==
  IF range = <<>> THEN rs
  ELSE UnstepLoop(UnstepMiddle(rs, Head(range)), Tail(range))

\* EnigmaMachine.step
step(rs) ==
  LET L == Len(rs)
      s1 == IF turnover(rs[L-1])
            THEN [rs EXCEPT ![L] = rotor_step(rs[L])]
            ELSE rs
      s2 == StepLoop(s1, RangeDown(L - 2, 1))
  IN  [s2 EXCEPT ![1] = rotor_step(s2[1])]

\* unstep() without the retraction of the leftmost rotor
unstep_no_leftmost(rs) ==
  LET L == Len(rs)
      s1 == [rs EXCEPT ![1] = rotor_unstep(rs[1])]
  IN  UnstepLoop(s1, RangeDown(1, L - 2))

\* EnigmaMachine.unstep
unstep(rs) ==
  LET L == Len(rs)
      s1 == [rs EXCEPT ![1] = rotor_unstep(rs[1])]
      s2 == UnstepLoop(s1, RangeDown(1, L - 2))
  IN  IF turnover(s2[L-1])
      THEN [s2 EXCEPT ![L] = rotor_unstep(s2[L])]
      ELSE s2

RECURSIVE ForwardPass(_, _, _)
ForwardPass(rs, k, lettercode) ==
  IF k > Len(rs) THEN lettercode
  ELSE ForwardPass(rs, k + 1, signal_forward(rs[k], lettercode))

RECURSIVE BackwardPass(_, _, _)
BackwardPass(rs, k, lettercode) ==
  IF k < 1 THEN lettercode
  ELSE BackwardPass(rs, k - 1, signal_backward(rs[k], lettercode))

\* EnigmaMachine.encrypt_lettercode: rotors -> reflector -> rotors
encrypt_lettercode(rs, refl, lettercode) ==
  BackwardPass(rs, Len(rs), reflect(refl, ForwardPass(rs, 1, lettercode)))

\* one iteration of the loop of EnigmaMachine.encrypt, after self.step():
\* plugboard, rotors and reflector, plugboard
encrypt_letter(rs, refl, pb, lettercode) ==
  pb[encrypt_lettercode(rs, refl, pb[lettercode])]

\* EnigmaMachine.encrypt: the rotors after the call and the ciphertext
RECURSIVE encrypt(_, _, _, _)

\* encrypt() that enciphers each letter before stepping instead of after
encrypt_before_step(rs, refl, pb, plaintext) ==
  IF plaintext = <<>> THEN [rotors |-> rs, ciphertext |-> <<>>]
  ELSE LET c == Letter(encrypt_letter(rs, refl, pb, Index(Head(plaintext))))
           rest == encrypt(step(rs), refl, pb, Tail(plaintext))
       IN  [rotors |-> rest.rotors, ciphertext |-> <<c>> \o rest.ciphertext]

encrypt(rs, refl, pb, plaintext) ==
  IF plaintext = <<>> THEN [rotors |-> rs, ciphertext |-> <<>>]
  ELSE LET stepped == step(rs)
           c == Letter(encrypt_letter(stepped, refl, pb, Index(Head(plaintext))))
           rest == encrypt(stepped, refl, pb, Tail(plaintext))
       IN  [rotors |-> rest.rotors, ciphertext |-> <<c>> \o rest.ciphertext]

\* EnigmaMachine.reset: fresh copies of the rotors saved by configure
reset(initial) == [k \in 1..Len(initial) |-> rotor_copy(initial[k])]

\* `x in plugboard_pairs` inside configure: plugboard_pairs names the ARGUMENT,
\* a list of letter pairs, and x is a letter code; Python's == between an int
\* and a tuple is False, so no element of the list ever compares equal
IntEqualsPair(x, pair) == FALSE

InPairList(x, pairs) == \E i \in 1..Len(pairs) : IntEqualsPair(x, pairs[i])

EmptyDict == [x \in {} |-> 0]

\* dict[key] = value
DictPut(d, key, value) ==
  [x \in (DOMAIN d) \cup {key} |-> IF x = key THEN value ELSE d[x]]

\* the validation loop of EnigmaMachine.configure over the pairs from index i:
\* the dictionary built so far and the exception raised, if any
RECURSIVE PlugLoop(_, _, _)
PlugLoop(pairs, i, d) ==
  IF i > Len(pairs) THEN [pairs |-> d, raised |-> "none"]
  ELSE LET a == Index(pairs[i][1])
           b == Index(pairs[i][2])
       IN  IF InPairList(a, pairs) \/ InPairList(b, pairs)
           THEN [pairs |-> d, raised |-> "ValueError"]
           ELSE IF a = b
           THEN [pairs |-> d, raised |-> "ValueError"]
           ELSE PlugLoop(pairs, i + 1, DictPut(DictPut(d, a, b), b, a))

\* "Unsteckered pairs": every code not in the dictionary maps to itself
Unsteckered(d) ==
  [i \in 0..(N-1) |-> IF i \in DOMAIN d THEN d[i] ELSE i]

\* EnigmaMachine.configure on machine m: the machine after the call and the
\* exception it raised ("none" when it returned).  A raise leaves the rotors,
\* the reflector and the partial plugboard assigned, initial_rotors untouched.
configure(m, rs, refl, plugboard_pairs) ==
  LET loop == PlugLoop(plugboard_pairs, 1, EmptyDict)
  IN  IF loop.raised # "none"
      THEN [machine |-> [m EXCEPT !.rotors = rs, !.reflector = refl,
                                  !.plugboard_pairs = loop.pairs],
            raised |-> loop.raised]
      ELSE [machine |-> [rotors |-> rs, reflector |-> refl,
                         plugboard_pairs |-> Unsteckered(loop.pairs),
                         initial_rotors |-> [k \in 1..Len(rs) |-> rotor_copy(rs[k])]],
            raised |-> "none"]

\* EnigmaMachine.copy: configure() on a new machine with the rotor list, the
\* reflector and self.plugboard_pairs, the DICTIONARY code -> code.  The loop
\* `for letter_a, letter_b in plugboard_pairs` iterates its keys and unpacking
\* an int raises TypeError, after the rotors and the reflector were assigned.
\* The result is the machine built so far and the exception raised.
copy(m) ==
  IF DOMAIN m.plugboard_pairs # {}
  THEN [machine |-> [rotors |-> m.rotors, reflector |-> m.reflector,
                     plugboard_pairs |-> EmptyDict, initial_rotors |-> <<>>],
        raised |-> "TypeError"]
  ELSE configure([rotors |-> <<>>, reflector |-> m.reflector,
                  plugboard_pairs |-> EmptyDict, initial_rotors |-> <<>>],
                 m.rotors, m.reflector, <<>>)

\* ------------------------------------------------------------------------
\* State of the machine harness
\* ------------------------------------------------------------------------
VARIABLES
  machine,   \* the EnigmaMachine: rotors, reflector, plugboard_pairs, initial_rotors
  error,     \* exception raised by the last configure(), "none" if it returned
  op,        \* name of the last call made on the machine
  hist,      \* the current run of step() calls and of the unstep() calls after it
  sess,      \* the current encrypt / reset / encrypt session
  crib,            \* the crib handed to the menu builder
  ciphertext,      \* the ciphertext handed to the menu builder
  crib_positions,  \* the list returned by find_crib_positions
  menu,            \* the menu returned by create_menu
  pc,              \* where the menu builder or the Bombe stands
  bombe,           \* the Bombe and the local variables of its run()
  copied,          \* the last copy() made of a rotor or of the machine
  workers,         \* the worker processes of the search driver
  queue,           \* the multiprocessing queue of the search driver
  driver           \* the search driver: its position and its globals

machineVars == <<machine, error, op, hist, sess, copied>>

harnessVars == <<error, op, hist, sess, copied>>

driverVars == <<workers, queue, driver>>

menuVars == <<crib, ciphertext, crib_positions, menu>>

vars ==
  <<machine, error, op, hist, sess,
    crib, ciphertext, crib_positions, menu, pc, bombe,
    copied, workers, queue, driver>>

\* no copy made
NoCopy ==
  [of |-> "none", original |-> <<>>, rotor |-> <<>>, machine |-> <<>>,
   raised |-> "none"]

\* no process created, nothing collected
NoDriver ==
  [pc |-> "none", cell |-> 0, started |-> 0, joined |-> 0,
   ring_setting |-> <<>>, scores |-> <<>>, received |-> 0,
   raised |-> "none", output |-> <<>>]

\* no menu built, no Bombe made
NoMenu == [adj |-> <<>>, input |-> "", offset |-> 0, paths |-> <<>>]

\* plugboard and plugboard_possible are the locals of Bombe.run as the last
\* guess left them; no guess made yet: no hypothesis
NoBombe ==
  [ring_settings |-> <<>>, cell |-> 0, rotor_offsets |-> <<>>, guess |-> 0,
   contradictions |-> <<>>, possibilities |-> <<>>,
   plugboard |-> <<>>, plugboard_possible |-> FALSE]

\* ------------------------------------------------------------------------
\* Inputs of the machine harness
\* ------------------------------------------------------------------------
\* rotor lists handed to configure, rotors[0] first
WheelOrders == {<<"I", "II", "III">>, <<"III", "II", "I">>}

\* ring-setting and offset letters per rotor; ring E puts a middle rotor II on
\* its notch (position 4), ring F just past it
Settings ==
  { [rings |-> <<"A","A","A">>, offs |-> <<"A","A","A">>],
    [rings |-> <<"A","E","A">>, offs |-> <<"A","A","A">>],
    [rings |-> <<"A","F","A">>, offs |-> <<"B","A","C">>] }

\* plugboard pair lists: none, the pairs of test.py, one pair, a letter in two
\* pairs, a letter paired with itself
PlugboardInputs ==
  { <<>>,
    << <<"A","B">>, <<"C","D">>, <<"E","F">>, <<"G","H">>, <<"I","J">>, <<"K","L">> >>,
    << <<"A","B">> >>,
    << <<"A","B">>, <<"A","C">> >>,
    << <<"A","B">>, <<"C","C">> >> }

TextLetters == {"A", "B"}

RECURSIVE SeqsUpTo(_, _)
SeqsUpTo(S, n) ==
  IF n = 0 THEN {<<>>}
  ELSE LET shorter == SeqsUpTo(S, n - 1)
       IN  shorter \cup {Append(s, x) : s \in shorter, x \in S}

AAAAA == <<"A","A","A","A","A">>

BDZGO == <<"B","D","Z","G","O">>

Texts == SeqsUpTo(TextLetters, MaxTextLen) \cup {AAAAA}

\* test.py lines 11-17: copies of the catalogue rotors, each configured
MakeRotors(names, rings, offs) ==
  [k \in 1..Len(names) |->
     rotor_configure(rotor_copy(NewRotor(names[k])), rings[k], offs[k])]

Positions(rs) == [k \in 1..Len(rs) |-> rs[k].position]

NoSession == [phase |-> "none", x |-> <<>>, y |-> <<>>, z |-> <<>>]

FreshSession == [NoSession EXCEPT !.phase = "fresh"]

NewHist(rs) == [start |-> Positions(rs), n |-> 0, k |-> 0]

\* EnigmaMachine() before configure has no attributes
Unconfigured ==
  [rotors |-> <<>>, reflector |-> "B", plugboard_pairs |-> EmptyDict,
   initial_rotors |-> <<>>]

\* ------------------------------------------------------------------------
\* Operations of the machine
\* ------------------------------------------------------------------------
\* A machine can be used once configure() has returned on it
Usable == op # "init" /\ error = "none"

\* machine.configure(rotors, reflector, plugboard_pairs) as test.py calls it.
\* The harness configures a machine after construction, after a configure
\* and after a reset; the result of configure does not depend on where the
\* rotors of the machine stood before the call.
Configure(names, rings, offs, pairs) ==
  LET res == configure(machine, MakeRotors(names, rings, offs), "B", pairs)
  IN  /\ op \in {"init", "configure", "reset"}
      /\ machine' = res.machine
      /\ error' = res.raised
      /\ op' = "configure"
      /\ hist' = NewHist(res.machine.rotors)
      /\ sess' = IF res.raised = "none" THEN FreshSession ELSE NoSession
      /\ copied' = NoCopy
      /\ UNCHANGED <<menuVars, pc, bombe, driverVars>>

\* machine.step()
Step ==
  /\ Usable
  /\ machine' = [machine EXCEPT !.rotors = step(machine.rotors)]
  /\ op' = "step"
  /\ hist' = IF hist.k = 0 /\ hist.n < MaxN
             THEN [hist EXCEPT !.n = hist.n + 1]
             ELSE [start |-> Positions(machine.rotors), n |-> 1, k |-> 0]
  /\ sess' = NoSession
  /\ copied' = NoCopy
  /\ UNCHANGED <<error, menuVars, pc, bombe, driverVars>>

\* machine.unstep()
Unstep ==
  /\ Usable
  /\ machine' = [machine EXCEPT !.rotors = unstep(machine.rotors)]
  /\ op' = "unstep"
  /\ hist' = IF hist.k < hist.n
             THEN [hist EXCEPT !.k = hist.k + 1]
             ELSE NewHist(unstep(machine.rotors))
  /\ sess' = NoSession
  /\ copied' = NoCopy
  /\ UNCHANGED <<error, menuVars, pc, bombe, driverVars>>

\* machine.reset()
Reset ==
  /\ Usable
  /\ machine' = [machine EXCEPT !.rotors = reset(machine.initial_rotors)]
  /\ op' = "reset"
  /\ hist' = NewHist(reset(machine.initial_rotors))
  /\ sess' = IF sess.phase = "enc1"
             THEN [sess EXCEPT !.phase = "reset1"]
             ELSE FreshSession
  /\ copied' = NoCopy
  /\ UNCHANGED <<error, menuVars, pc, bombe, driverVars>>

\* machine.encrypt(plaintext)
Encrypt(plaintext) ==
  LET res == encrypt(machine.rotors, machine.reflector,
                     machine.plugboard_pairs, plaintext)
  IN  /\ Usable
      /\ machine' = [machine EXCEPT !.rotors = res.rotors]
      /\ op' = "encrypt"
      /\ hist' = NewHist(res.rotors)
      /\ sess' = IF sess.phase = "fresh"
                 THEN [phase |-> "enc1", x |-> plaintext,
                       y |-> res.ciphertext, z |-> <<>>]
                 ELSE IF sess.phase = "reset1" /\ plaintext = sess.y
                 THEN [sess EXCEPT !.phase = "enc2", !.z = res.ciphertext]
                 ELSE NoSession
      /\ copied' = NoCopy
      /\ UNCHANGED <<error, menuVars, pc, bombe, driverVars>>

\* machine = EnigmaMachine()
Init ==
  /\ machine = Unconfigured
  /\ error = "none"
  /\ op = "init"
  /\ hist = NewHist(machine.rotors)
  /\ sess = NoSession
  /\ crib = <<>>
  /\ ciphertext = <<>>
  /\ crib_positions = <<>>
  /\ menu = NoMenu
  /\ pc = "machine"
  /\ bombe = NoBombe
  /\ copied = NoCopy
  /\ workers = <<>>
  /\ queue = <<>>
  /\ driver = NoDriver

Next ==
  \/ \E names \in WheelOrders, set \in Settings, pairs \in PlugboardInputs :
        Configure(names, set.rings, set.offs, pairs)
  \/ Step
  \/ Unstep
  \/ Reset
  \/ \E plaintext \in Texts \cup {sess.y} : Encrypt(plaintext)

Spec == Init /\ [][Next]_vars

\* rotor.copy() on rotor k of the machine, as configure() and reset() call it
CopyRotor(k) ==
  /\ Usable
  /\ copied' = [NoCopy EXCEPT !.of = "rotor",
                              !.original = machine.rotors[k],
                              !.rotor = rotor_copy(machine.rotors[k])]
  /\ UNCHANGED <<machine, error, op, hist, sess, menuVars, pc, bombe,
                 driverVars>>

\* machine.copy(), as run_bombe calls it (crackmessage.py line 29)
CopyMachine ==
  LET res == copy(machine)
  IN  /\ Usable
      /\ copied' = [NoCopy EXCEPT !.of = "machine",
                                  !.machine = res.machine,
                                  !.raised = res.raised]
      /\ UNCHANGED <<machine, error, op, hist, sess, menuVars, pc, bombe,
                     driverVars>>

\* the machine configured, stepped, stepped back and copied
NextCopy ==
  \/ \E names \in WheelOrders, set \in Settings, pairs \in PlugboardInputs :
        Configure(names, set.rings, set.offs, pairs)
  \/ Step
  \/ Unstep
  \/ \E k \in 1..Len(machine.rotors) : CopyRotor(k)
  \/ CopyMachine

SpecCopy == Init /\ [][NextCopy]_vars

\* ------------------------------------------------------------------------
\* Properties of the machine
\* ------------------------------------------------------------------------
\* C1: N calls of step() followed by N calls of unstep() leave every rotor
\* at the position it had before the first step()
StepsThenUnstepsRestore ==
  hist.k = hist.n => Positions(machine.rotors) = hist.start

\* C1 witness: at least two steps were undone and the leftmost rotor moved
\* on the way because the middle rotor stands on its notch
StepsUndoneWithLeftmostMoving ==
  /\ op = "unstep"
  /\ hist.n >= 2
  /\ hist.k = hist.n
  /\ turnover(machine.rotors[2])

\* C2: on every step() the middle rotor advances by one exactly when, before
\* the step, it or the fastest rotor is at turnover
MiddleAdvancesExactlyAtTurnover ==
  [][op' = "step" =>
       ((machine'.rotors[2].position = Mod(machine.rotors[2].position + 1))
          <=> (turnover(machine.rotors[1]) \/ turnover(machine.rotors[2])))]_vars

\* the letter map of the machine at its current rotor positions
LetterMap(c) ==
  encrypt_letter(machine.rotors, machine.reflector, machine.plugboard_pairs, c)

\* C3: at no reachable state does the single-letter encryption return its input
NeverEncryptsLetterToItself ==
  Usable => \A c \in 0..(N-1) : LetterMap(c) # c

\* C4: at every reachable state the single-letter encryption applied twice
\* returns its input
LetterMapIsInvolution ==
  Usable => \A c \in 0..(N-1) : LetterMap(LetterMap(c)) = c

\* C6: encrypt(X) on a configured machine, reset(), then encrypt of the
\* result yields X
EncryptResetEncryptIsIdentity ==
  sess.phase = "enc2" => sess.z = sess.x

\* C14: configure raises for a pair list in which some letter occurs in two
\* pairs, so that whenever configure has returned the plugboard map is an
\* involution over the 26 letter codes
ConfigureLeavesAnInvolution ==
  (op = "configure" /\ error = "none") =>
    /\ DOMAIN machine.plugboard_pairs = 0..(N-1)
    /\ \A c \in 0..(N-1) :
         machine.plugboard_pairs[machine.plugboard_pairs[c]] = c

\* C15: Rotor.copy() on a rotor that was configured, stepped and stepped
\* back returns a rotor with the same wiring and the same current position
RotorCopyKeepsPosition ==
  copied.of = "rotor" =>
    /\ copied.rotor.name = copied.original.name
    /\ copied.rotor.position = copied.original.position

\* C16: EnigmaMachine.copy() on a configured machine succeeds and returns a
\* machine with the same current rotor positions and the same plugboard
MachineCopySucceeds ==
  copied.of = "machine" =>
    /\ copied.raised = "none"
    /\ Positions(copied.machine.rotors) = Positions(machine.rotors)
    /\ copied.machine.plugboard_pairs = machine.plugboard_pairs

\* the machine was configured with these rotors, each with ring A and
\* offset A, and an empty plugboard, and encrypt(AAAAA) is the one call
\* made on it since
EncryptedAAAAA(names) ==
  /\ sess.phase = "enc1"
  /\ sess.x = AAAAA
  /\ machine.initial_rotors = MakeRotors(names, <<"A","A","A">>, <<"A","A","A">>)
  /\ machine.plugboard_pairs = Unsteckered(EmptyDict)

\* C7 as stated: the rotor list I, II, III of test.py encrypts AAAAA to BDZGO
RotorsIToIIIGiveBDZGO ==
  EncryptedAAAAA(<<"I", "II", "III">>) => sess.y = BDZGO

\* C7 amended: the rotor list III, II, I (fastest rotor first, wheel order
\* I-II-III read left to right) encrypts AAAAA to BDZGO
RotorsIIIToIGiveBDZGO ==
  EncryptedAAAAA(<<"III", "II", "I">>) => sess.y = BDZGO

\* C7 witness: AAAAA was encrypted by the machine with rotor list III, II, I
EncryptedAAAAAWithIIIToI == EncryptedAAAAA(<<"III", "II", "I">>)

\* ------------------------------------------------------------------------
\* Python dictionaries that are iterated: a sequence of [k, v] records in
\* insertion order
\* ------------------------------------------------------------------------
\* key in d
Has(d, key) == \E i \in 1..Len(d) : d[i].k = key

\* d[key]
Get(d, key) == d[CHOOSE i \in 1..Len(d) : d[i].k = key].v

\* d.get(key, default)
GetOr(d, key, default) == IF Has(d, key) THEN Get(d, key) ELSE default

\* d[key] = value: an existing key keeps its place, a new key goes last
Put(d, key, value) ==
  IF Has(d, key)
  THEN [i \in 1..Len(d) |-> IF d[i].k = key THEN [k |-> key, v |-> value] ELSE d[i]]
  ELSE Append(d, [k |-> key, v |-> value])

\* list(d)
Keys(d) == [i \in 1..Len(d) |-> d[i].k]

\* set(sequence)
SetOf(seq) == {seq[i] : i \in 1..Len(seq)}

\* ------------------------------------------------------------------------
\* utils.py: crib positions and the menu
\* ------------------------------------------------------------------------
Min(a, b) == IF a < b THEN a ELSE b

\* Python's s[a:b] for 0 <= a <= b
Slice(s, a, b) == SubSeq(s, a + 1, Min(b, Len(s)))

\* first letter of the crib only: the loop returns after one comparison
is_crib_position_first_letter(crib_, ciphertext_, position) ==
  IF position + Len(crib_) > Len(ciphertext_) THEN FALSE
  ELSE LET window == Slice(ciphertext_, position, position + Len(crib_))
       IN  ~ \E i \in 1..Min(1, Min(Len(crib_), Len(window))) :
               crib_[i] = window[i]

\* is_crib_position
is_crib_position(crib_, ciphertext_, position) ==
  IF position + Len(crib_) > Len(ciphertext_) THEN FALSE
  ELSE LET window == Slice(ciphertext_, position, position + Len(crib_))
       IN  ~ \E i \in 1..Min(Len(crib_), Len(window)) : crib_[i] = window[i]

\* the loop of find_crib_positions from `position` up to, not including, stop
RECURSIVE FindLoop(_, _, _, _, _)
FindLoop(crib_, ciphertext_, position, stop, found) ==
  IF position >= stop THEN found
  ELSE FindLoop(crib_, ciphertext_, position + 1, stop,
                IF is_crib_position(crib_, ciphertext_, position)
                THEN Append(found, position)
                ELSE found)

\* find_crib_positions: position runs over range(len(ciphertext) - len(crib))
find_crib_positions(crib_, ciphertext_) ==
  FindLoop(crib_, ciphertext_, 0, Len(ciphertext_) - Len(crib_), <<>>)

\* menu[a][b] = menu[a].get(b, []) + [pos] on the defaultdict(dict) adj
AddEdge(adj, a, b, pos) ==
  LET row == GetOr(adj, a, <<>>)
  IN  Put(adj, a, Put(row, b, Append(GetOr(row, b, <<>>), pos)))

\* create_menu's loop body that records the edge in one direction only
MenuStepOneWay(adj, a, b, pos) == AddEdge(adj, a, b, pos)

\* body of the loop of create_menu for the triplet (a, b, pos)
MenuStep(adj, a, b, pos) == AddEdge(AddEdge(adj, a, b, pos), b, a, pos)

\* the loop of create_menu over zip(crib, window, range(len(crib))) from
\* the 1-based index i
RECURSIVE MenuLoop(_, _, _, _)
MenuLoop(crib_, window, i, adj) ==
  IF i > Min(Len(crib_), Len(window)) THEN adj
  ELSE MenuLoop(crib_, window, i + 1, MenuStep(adj, crib_[i], window[i], i - 1))

\* create_menu: the letter graph and menu['input']
create_menu(crib_, ciphertext_, position) ==
  [adj |-> MenuLoop(crib_, Slice(ciphertext_, position, position + Len(crib_)),
                    1, <<>>),
   input |-> crib_[1]]

\* menu[a] and menu[a][b] read without inserting a key
Row(m, a) == GetOr(m.adj, a, <<>>)

Offsets(m, a, b) == GetOr(Row(m, a), b, <<>>)

\* ------------------------------------------------------------------------
\* utils.py: find_paths_dfs
\* ------------------------------------------------------------------------
\* `connection == current_path`: a one-letter string against the whole path
SameString(connection, current_path) == <<connection>> = current_path

\* a path kept whether or not its letter set was seen before
KeepAlways(acc, path) ==
  [paths |-> Append(acc.paths, path), sets |-> Append(acc.sets, SetOf(path))]

\* the two `if set(path) not in path_node_sets` blocks: acc is [paths, sets]
KeepIfNew(acc, path) ==
  IF SetOf(path) \in SetOf(acc.sets) THEN acc
  ELSE [paths |-> Append(acc.paths, path), sets |-> Append(acc.sets, SetOf(path))]

RECURSIVE KeepAllNew(_, _)
KeepAllNew(acc, new_paths) ==
  IF new_paths = <<>> THEN acc
  ELSE KeepAllNew(KeepIfNew(acc, Head(new_paths)), Tail(new_paths))

RECURSIVE find_paths_dfs(_, _)
RECURSIVE ConnectionLoop(_, _, _, _)

\* the loop of find_paths_dfs over the connections of the current node
ConnectionLoop(m, current_path, connections, acc) ==
  IF connections = <<>> THEN acc.paths
  ELSE LET connection == Head(connections)
           back_connection == IF Len(current_path) >= 2
                              THEN SameString(connection, current_path)
                              ELSE FALSE
           path == Append(current_path, connection)
           next == IF connection \in SetOf(current_path) /\ ~ back_connection
                   THEN KeepIfNew(acc, path)
                   ELSE IF ~ back_connection
                   THEN KeepAllNew(acc, find_paths_dfs(m, path))
                   ELSE acc
       IN  ConnectionLoop(m, current_path, Tail(connections), next)

\* find_paths_dfs(menu, current_path); <<>> stands for the default ''
find_paths_dfs(m, current_path) ==
  LET start == IF current_path = <<>> THEN <<m.input>> ELSE current_path
      current_node == start[Len(start)]
  IN  ConnectionLoop(m, start, Keys(Row(m, current_node)),
                     [paths |-> <<>>, sets |-> <<>>])

\* ------------------------------------------------------------------------
\* The menu builder: inputs and operations
\* ------------------------------------------------------------------------
CribLetters == {"A", "B", "C"}

HELLO == <<"H","E","L","L","O">>

HXXLO == <<"H","X","X","L","O">>

WETTER == <<"W","E","T","T","E","R">>

SNMKSS == <<"S","N","M","K","S","S">>

ABC == <<"A","B","C">>

BCA == <<"B","C","A">>

\* cribs.txt: non-empty cribs
Cribs == (SeqsUpTo(CribLetters, MaxCribLen) \ {<<>>}) \cup {HELLO, WETTER, ABC}

\* ciphertext.txt
Ciphertexts == SeqsUpTo(CribLetters, MaxCipherLen) \cup {HXXLO, SNMKSS, BCA}

\* crackmessage.py line 45: utils.find_crib_positions(crib, ciphertext)
FindCribPositions ==
  /\ pc = "start"
  /\ crib_positions' = find_crib_positions(crib, ciphertext)
  /\ pc' = "found"
  /\ UNCHANGED <<machineVars, crib, ciphertext, menu, bombe, driverVars>>

\* crackmessage.py lines 46-47, at any valid crib position:
\* menu = utils.create_menu(crib, ciphertext, pos); menu['offset'] = pos
CreateMenu(position) ==
  /\ pc = "found"
  /\ is_crib_position(crib, ciphertext, position)
  /\ menu' = LET m == create_menu(crib, ciphertext, position)
             IN  [adj |-> m.adj, input |-> m.input, offset |-> position,
                  paths |-> <<>>]
  /\ pc' = "menu"
  /\ UNCHANGED <<machineVars, crib, ciphertext, crib_positions, bombe,
                 driverVars>>

\* crackmessage.py line 48: menu['paths'] = utils.find_paths_dfs(menu)
FindPaths ==
  /\ pc = "menu"
  /\ menu' = [menu EXCEPT !.paths = find_paths_dfs(menu, <<>>)]
  /\ pc' = "paths"
  /\ UNCHANGED <<machineVars, crib, ciphertext, crib_positions, bombe,
                 driverVars>>

InitMenu ==
  /\ crib \in Cribs
  /\ ciphertext \in Ciphertexts
  /\ crib_positions = <<>>
  /\ menu = NoMenu
  /\ pc = "start"
  /\ machine = Unconfigured
  /\ error = "none"
  /\ op = "init"
  /\ hist = NewHist(machine.rotors)
  /\ sess = NoSession
  /\ bombe = NoBombe
  /\ copied = NoCopy
  /\ workers = <<>>
  /\ queue = <<>>
  /\ driver = NoDriver

NextMenu ==
  \/ FindCribPositions
  \/ \E position \in 0..Len(ciphertext) : CreateMenu(position)
  \/ FindPaths

SpecMenu == InitMenu /\ [][NextMenu]_vars

\* ------------------------------------------------------------------------
\* Properties of the menu builder
\* ------------------------------------------------------------------------
\* no crib letter equals the ciphertext letter aligned with it at position p
NoLetterMatches(p) ==
  \A i \in 1..Len(crib) : crib[i] # ciphertext[p + i]

\* C8: find_crib_positions returns every index p with
\* 0 <= p <= len(ciphertext) - len(crib), the last one included, at which no
\* crib letter equals the ciphertext letter aligned with it
FindsEveryCribPosition ==
  pc = "found" =>
    SetOf(crib_positions) =
      {p \in 0..(Len(ciphertext) - Len(crib)) : NoLetterMatches(p)}

\* C9: find_crib_positions returns no position at which the crib runs past
\* the end of the ciphertext or some crib letter equals the ciphertext letter
\* aligned with it; HELLO against HXXLO yields no position
ReturnsOnlyCribPositions ==
  pc = "found" =>
    /\ \A k \in 1..Len(crib_positions) :
         LET p == crib_positions[k]
         IN  /\ p >= 0
             /\ p + Len(crib) <= Len(ciphertext)
             /\ NoLetterMatches(p)
    /\ (crib = HELLO /\ ciphertext = HXXLO) => crib_positions = <<>>

\* C9 witness: a position was returned and an earlier position was rejected
\* because a crib letter matches there
ReturnedOneRejectedAnother ==
  /\ pc = "found"
  /\ \E k \in 1..Len(crib_positions) :
       \E p \in 0..(crib_positions[k] - 1) : ~ NoLetterMatches(p)

\* the crib indices at which the letters a and b face each other
EdgeIndices(p, a, b) ==
  {i \in 0..(Len(crib) - 1) :
     {crib[i + 1], ciphertext[p + i + 1]} = {a, b}}

\* the sequence lists the elements of the set S in ascending order
IsAscendingListOf(seq, S) ==
  /\ SetOf(seq) = S
  /\ \A i, j \in 1..Len(seq) : i < j => seq[i] < seq[j]

\* every letter of the crib and of the ciphertext and every key of the menu
MenuLetters ==
  SetOf(crib) \cup SetOf(ciphertext) \cup SetOf(Keys(menu.adj))
    \cup UNION {SetOf(Keys(menu.adj[i].v)) : i \in 1..Len(menu.adj)}

\* C10: the menu built at a valid position is symmetric: b is a neighbour of
\* a iff a is one of b, menu[a][b] and menu[b][a] hold the same offset list,
\* and that list holds exactly the crib indices at which a and b face each
\* other
MenuIsSymmetric ==
  pc = "menu" =>
    \A a, b \in MenuLetters :
      /\ Has(Row(menu, a), b) <=> Has(Row(menu, b), a)
      /\ Offsets(menu, a, b) = Offsets(menu, b, a)
      /\ IsAscendingListOf(Offsets(menu, a, b), EdgeIndices(menu.offset, a, b))
      /\ Has(Row(menu, a), b) <=> EdgeIndices(menu.offset, a, b) # {}

\* C10 witness: a menu in which some edge carries two offsets, one recorded
\* from each direction
MenuWithTwoOffsetsOnAnEdge ==
  /\ pc = "menu"
  /\ \E a, b \in MenuLetters :
       /\ Len(Offsets(menu, a, b)) >= 2
       /\ \E i, j \in 1..Len(crib) : crib[i] = a /\ crib[j] = b

\* the edges of the menu graph, each a set of two letters
MenuEdges ==
  {e \in SUBSET MenuLetters :
     \E a, b \in MenuLetters : e = {a, b} /\ Has(Row(menu, a), b)}

\* the letters that can be reached from the letters of S along menu edges
RECURSIVE ReachFrom(_)
ReachFrom(S) ==
  LET T == S \cup {b \in MenuLetters : \E a \in S : Has(Row(menu, a), b)}
  IN  IF T = S THEN S ELSE ReachFrom(T)

\* every letter on an edge of C lies on exactly two edges of C
AllOfDegreeTwo(C) ==
  \A v \in UNION C : Cardinality({e \in C : v \in e}) = 2

\* the edge set C is one simple cycle: every letter on it has degree two and
\* no smaller part of it is closed already
IsSimpleCycle(C) ==
  /\ C # {}
  /\ AllOfDegreeTwo(C)
  /\ \A D \in SUBSET C : (D # {} /\ D # C) => ~ AllOfDegreeTwo(D)

\* the edges a walk traverses
WalkEdges(path) == {{path[i], path[i + 1]} : i \in 1..(Len(path) - 1)}

\* the simple cycles of the menu graph that can be reached from menu['input']
ReachableCycles ==
  {C \in SUBSET MenuEdges :
     IsSimpleCycle(C) /\ (UNION C) \cap ReachFrom({menu.input}) # {}}

\* C11: for every simple cycle of the menu graph reachable from menu['input']
\* find_paths_dfs returns a walk that traverses every edge of the cycle, the
\* closing edge included
ReturnsAWalkPerSimpleCycle ==
  pc = "paths" =>
    \A C \in ReachableCycles :
      \E k \in 1..Len(menu.paths) : C \subseteq WalkEdges(menu.paths[k])

\* C12: the list returned by the top-level call of find_paths_dfs holds no
\* two paths with the same set of letters
PathLetterSetsAreDistinct ==
  pc = "paths" =>
    \A i, j \in 1..Len(menu.paths) :
      i # j => SetOf(menu.paths[i]) # SetOf(menu.paths[j])

\* C12 witness: two paths were returned, and the recursive call for some
\* connection of the input found a path whose letter set was there already
ReturnedPathsAndDroppedOne ==
  /\ pc = "paths"
  /\ Len(menu.paths) >= 2
  /\ \E c \in SetOf(Keys(Row(menu, menu.input))) :
       \E q \in SetOf(find_paths_dfs(menu, <<menu.input, c>>)) :
         /\ q \notin SetOf(menu.paths)
         /\ \E k \in 1..Len(menu.paths) : SetOf(menu.paths[k]) = SetOf(q)

\* C22: find_paths_dfs never steps from the current letter straight back to
\* the previous letter over the edge just traversed: a returned path that
\* ends in x y x does so only where x and y face each other at two crib
\* positions or more, a cycle of two parallel edges
NoPathEndsInABackStep ==
  \A k \in 1..Len(menu.paths) :
    LET path == menu.paths[k]
        n == Len(path)
    IN  (n >= 3 /\ path[n] = path[n - 2]) =>
          Len(Offsets(menu, path[n - 1], path[n])) >= 2

\* ------------------------------------------------------------------------
\* bombe.py: class Bombe
\* ------------------------------------------------------------------------
\* Bombe.add_contradiction on the dictionary letter -> set of letters
add_contradiction(contradictions, letter, letter_cipher) ==
  LET c1 == Put(contradictions, letter,
                GetOr(contradictions, letter, {}) \cup {letter_cipher})
  IN  Put(c1, letter_cipher, GetOr(c1, letter_cipher, {}) \cup {letter})

\* for plug in plugboard: self.add_contradiction(plug, plugboard[plug])
RECURSIVE AddPlugboard(_, _, _)
AddPlugboard(contradictions, plugboard, i) ==
  IF i > Len(plugboard) THEN contradictions
  ELSE AddPlugboard(
         add_contradiction(contradictions, plugboard[i].k, plugboard[i].v),
         plugboard, i + 1)

\* for _ in range(cipher_offset): self.machine.step()
RECURSIVE StepTimes(_, _)
StepTimes(rs, n) == IF n <= 0 THEN rs ELSE StepTimes(step(rs), n - 1)

\* element `cell` (0-based) of product(ALPHABET, repeat=3)
RotorOffsets(cell) ==
  <<Letter((cell \div (N * N)) % N), Letter((cell \div N) % N), Letter(cell % N)>>

\* Bombe.run lines 81-157 for one plugboard guess: the walk over the paths
\* from path pi (1-based) and letter index i (1-based).  st holds the
\* plugboard hypothesis, the contradictions, the rotors of the machine and
\* plugboard_possible; mach is the machine of the Bombe.
RECURSIVE Walk(_, _, _, _, _)
Walk(mach, m, pi, i, st) ==
  IF pi > Len(m.paths) THEN st
  ELSE IF i > Len(m.paths[pi]) - 1 THEN Walk(mach, m, pi + 1, 1, st)
  ELSE
    LET path == m.paths[pi]
        letter == path[i]
        letter_cipher == path[i + 1]
        letter_cipher_positions == Get(Get(m.adj, letter), letter_cipher)
        cipher_offset == letter_cipher_positions[1]
        at_offset == StepTimes(reset(mach.initial_rotors), cipher_offset)
    IN  IF ~ (Has(st.plugboard, letter) /\ st.possible)
        THEN Walk(mach, m, pi, i + 1, [st EXCEPT !.rotors = at_offset])
        ELSE
          LET plug_letter == Get(st.plugboard, letter)
              enc == encrypt(at_offset, mach.reflector, mach.plugboard_pairs,
                             <<plug_letter>>)
              plug_letter_cipher == enc.ciphertext[1]
              st1 == [st EXCEPT !.rotors = enc.rotors]
          IN  IF /\ Has(st.contradictions, letter_cipher)
                 /\ plug_letter_cipher \in Get(st.contradictions, letter_cipher)
              THEN [st1 EXCEPT
                      !.contradictions =
                         AddPlugboard(st.contradictions, st.plugboard, 1),
                      !.possible = FALSE]
              ELSE IF Has(st.plugboard, letter_cipher)
              THEN IF Get(st.plugboard, letter_cipher) = plug_letter_cipher
                   THEN Walk(mach, m, pi + 1, 1, st1)
                   ELSE [st1 EXCEPT
                           !.contradictions =
                              AddPlugboard(
                                add_contradiction(st.contradictions,
                                                  letter_cipher, plug_letter_cipher),
                                st.plugboard, 1),
                           !.possible = FALSE]
              ELSE Walk(mach, m, pi, i + 1,
                        [st1 EXCEPT
                           !.plugboard =
                              Put(Put(st.plugboard, letter_cipher, plug_letter_cipher),
                                  plug_letter_cipher, letter_cipher)])

\* Bombe.run lines 160-166: the key under which a surviving plugboard is
\* recorded, a list of two-letter sets
RECURSIVE PlugboardKey(_, _, _)
PlugboardKey(plugboard, i, plugboard_pairs) ==
  IF i > Len(plugboard) THEN plugboard_pairs
  ELSE LET pair == {plugboard[i].k, plugboard[i].v}
       IN  PlugboardKey(plugboard, i + 1,
             IF pair \notin SetOf(plugboard_pairs) /\ Cardinality(pair) # 1
             THEN Append(plugboard_pairs, pair)
             ELSE plugboard_pairs)

\* Bombe.run lines 74-167 for one guess: the walk and what it leaves behind
RunGuess(mach, m, contradictions, guess) ==
  LET plugboard == Put(Put(<<>>, m.input, guess), guess, m.input)
  IN  Walk(mach, m, 1, 1,
           [plugboard |-> plugboard, contradictions |-> contradictions,
            rotors |-> mach.rotors, possible |-> TRUE])

\* ------------------------------------------------------------------------
\* The Bombe harness: crackmessage.py lines 45-48 and 78-83, then
\* bomba.run(menu, menu['paths']) in steps of one plugboard guess
\* ------------------------------------------------------------------------
FTZMG == <<"F","T","Z","M","G">>

\* crib, ciphertext and crib position of the menus the Bombe is run on
BombeScenarios ==
  { [crib |-> WETTER, ciphertext |-> SNMKSS, position |-> 0],
    [crib |-> ABC, ciphertext |-> BCA, position |-> 0],
    [crib |-> AAAAA, ciphertext |-> FTZMG, position |-> 0] }

\* ring settings handed to Bombe(machine, ring_setting)
BombeRingSettings == {<<"A","A","A">>, <<"A","E","A">>}

\* crackmessage.py lines 46-48
BuildMenu(crib_, ciphertext_, position) ==
  LET m == create_menu(crib_, ciphertext_, position)
      m1 == [adj |-> m.adj, input |-> m.input, offset |-> position,
             paths |-> <<>>]
  IN  [m1 EXCEPT !.paths = find_paths_dfs(m1, <<>>)]

\* crackmessage.py lines 78-82: a machine of fresh rotor copies, no plugboard
TemplateMachine(names) ==
  configure(Unconfigured,
            [k \in 1..Len(names) |-> rotor_copy(NewRotor(names[k]))],
            "B", <<>>).machine

InitBombe ==
  /\ \E sc \in BombeScenarios :
       /\ crib = sc.crib
       /\ ciphertext = sc.ciphertext
       /\ menu = BuildMenu(sc.crib, sc.ciphertext, sc.position)
  /\ crib_positions = <<>>
  /\ \E names \in WheelOrders : machine = TemplateMachine(names)
  /\ \E ring_settings \in BombeRingSettings :
       bombe = [NoBombe EXCEPT !.ring_settings = ring_settings]
  /\ pc = "cell"
  /\ error = "none"
  /\ op = "configure"
  /\ hist = NewHist(machine.rotors)
  /\ sess = NoSession
  /\ copied = NoCopy
  /\ workers = <<>>
  /\ queue = <<>>
  /\ driver = NoDriver

\* Bombe.run lines 65-71: the next rotor-start triple
BombeCell ==
  /\ pc = "cell"
  /\ bombe.cell < MaxCells
  /\ LET rotor_offsets == RotorOffsets(bombe.cell)
     IN  /\ machine' =
              [machine EXCEPT !.rotors =
                 [r \in 1..Len(machine.rotors) |->
                    rotor_configure(machine.rotors[r], bombe.ring_settings[r],
                                    rotor_offsets[r])]]
         /\ bombe' = [bombe EXCEPT !.rotor_offsets = rotor_offsets,
                                   !.contradictions = <<>>,
                                   !.guess = 0]
  /\ pc' = "guess"
  /\ UNCHANGED <<harnessVars, menuVars, driverVars>>

\* Bombe.run lines 74-167: one iteration of `for guess in ALPHABET`
BombeGuess ==
  /\ pc = "guess"
  /\ LET st == RunGuess(machine, menu, bombe.contradictions, Letter(bombe.guess))
         key == PlugboardKey(st.plugboard, 1, <<>>)
         last == bombe.guess = N - 1
     IN  /\ machine' = [machine EXCEPT !.rotors = st.rotors]
         /\ bombe' =
              [bombe EXCEPT
                 !.contradictions = st.contradictions,
                 !.plugboard = st.plugboard,
                 !.plugboard_possible = st.possible,
                 !.possibilities =
                    IF st.possible
                    THEN Put(@, key, Append(GetOr(@, key, <<>>), bombe.rotor_offsets))
                    ELSE @,
                 !.guess = IF last THEN 0 ELSE @ + 1,
                 !.cell = IF last THEN @ + 1 ELSE @]
         /\ pc' = IF last THEN "cell" ELSE "guess"
  /\ UNCHANGED <<harnessVars, menuVars, driverVars>>

\* Bombe.run line 169: return possibilities
BombeReturn ==
  /\ pc = "cell"
  /\ bombe.cell >= MaxCells
  /\ pc' = "done"
  /\ UNCHANGED <<machineVars, menuVars, bombe, driverVars>>

NextBombe == BombeCell \/ BombeGuess \/ BombeReturn

SpecBombe == InitBombe /\ [][NextBombe]_vars

\* ------------------------------------------------------------------------
\* Properties of the Bombe
\* ------------------------------------------------------------------------
\* tuple(pair) of a two-letter set; configure treats both orders alike
PairOf(pair) == CHOOSE t \in pair \X pair : t[1] # t[2]

\* the machine a survivor stands for: the wheel order and reflector of the
\* Bombe's machine, its ring settings, the start triple as rotor offsets
\* and the recorded plugboard
SurvivorMachine(key, rotor_offsets) ==
  configure(Unconfigured,
            [r \in 1..Len(machine.rotors) |->
               rotor_configure(rotor_copy(NewRotor(machine.rotors[r].name)),
                               bombe.ring_settings[r], rotor_offsets[r])],
            machine.reflector,
            [i \in 1..Len(key) |-> PairOf(key[i])]).machine

\* that machine encrypts every crib letter to the ciphertext letter facing it
SurvivorEncryptsCrib(key, rotor_offsets) ==
  LET m == SurvivorMachine(key, rotor_offsets)
  IN  encrypt(m.rotors, m.reflector, m.plugboard_pairs, crib).ciphertext
        = Slice(ciphertext, menu.offset, menu.offset + Len(crib))

\* C5: every (plugboard, rotor-start triple) survivor recorded by Bombe.run
\* is a setting under which the machine encrypts every crib letter of the
\* menu to its ciphertext partner
SurvivorsEncryptCrib ==
  \A i \in 1..Len(bombe.possibilities) :
    \A j \in 1..Len(bombe.possibilities[i].v) :
      SurvivorEncryptsCrib(bombe.possibilities[i].k, bombe.possibilities[i].v[j])

\* C18: once a guess of the cell with ring triple r and start triple o has
\* made its trial encryptions, every rotor k of the machine still carries the
\* ring setting rk and the offset ok: reset() kept the configuration of the
\* cell, so its position is that of configure(rk, ok) plus the stepping
TrialsUseCellConfiguration ==
  (pc = "guess" /\ bombe.guess > 0 /\ menu.paths # <<>>) =>
    \A k \in 1..Len(machine.rotors) :
      /\ machine.rotors[k].ring_setting = Index(bombe.ring_settings[k])
      /\ machine.rotors[k].offset = Index(bombe.rotor_offsets[k])

\* C20: in every plugboard key recorded as a survivor no letter occurs in
\* two different pairs
SurvivorPlugboardsAreValid ==
  \A i \in 1..Len(bombe.possibilities) :
    LET key == bombe.possibilities[i].k
    IN  \A a, b \in 1..Len(key) : a # b => key[a] \cap key[b] = {}

\* Bombe.run lines 92-109: the trial encryption on the edge from letter to
\* letter_cipher, the machine reset and stepped to the first offset of the
\* edge, of the letter plug_letter
TrialEncrypt(mach, m, letter, letter_cipher, plug_letter) ==
  LET cipher_offset == Get(Get(m.adj, letter), letter_cipher)[1]
      at_offset == StepTimes(reset(mach.initial_rotors), cipher_offset)
  IN  encrypt(at_offset, mach.reflector, mach.plugboard_pairs,
              <<plug_letter>>).ciphertext[1]

\* the hypothesis pb is consistent on the edge i of path: both letters are
\* plugged and plugboard[letter_cipher] = E(plugboard[letter])
EdgeConsistent(pb, path, i) ==
  /\ Has(pb, path[i])
  /\ Has(pb, path[i + 1])
  /\ Get(pb, path[i + 1])
       = TrialEncrypt(machine, menu, path[i], path[i + 1], Get(pb, path[i]))

\* the guess (0-based) that the last BombeGuess step tried
LastGuess == IF bombe.guess = 0 THEN N - 1 ELSE bombe.guess - 1

\* C21: a guess is recorded as a survivor only if its final hypothesis is
\* consistent on every edge of every path of the path list: for every
\* consecutive pair (letter, letter_cipher), plugboard[letter_cipher] is the
\* trial encryption of plugboard[letter] at the first offset of the edge
SurvivorsClosedEveryPath ==
  (bombe.plugboard # <<>> /\ bombe.plugboard_possible) =>
    \A pi \in 1..Len(menu.paths) :
      \A i \in 1..(Len(menu.paths[pi]) - 1) :
        EdgeConsistent(bombe.plugboard, menu.paths[pi], i)

\* C24: within one cell the contradiction memory is a pure optimisation:
\* the guess just tried survived with the memory exactly when it survives
\* the same walk started with no contradiction remembered, where the memory
\* check never fires
MemoryIsPureOptimisation ==
  bombe.plugboard # <<>> =>
    bombe.plugboard_possible
      = RunGuess(machine, menu, <<>>, Letter(LastGuess)).possible

\* ------------------------------------------------------------------------
\* bombe.py: Bombe.run as a function of the machine, the ring settings and
\* the menu
\* ------------------------------------------------------------------------
\* lines 159-167 after the walk st of one guess: the contradictions, the
\* possibilities and the rotors of the machine that the guess leaves behind
AfterGuess(st, rotor_offsets, r) ==
  LET key == PlugboardKey(st.plugboard, 1, <<>>)
  IN  [contradictions |-> st.contradictions,
       possibilities |->
          IF st.possible
          THEN Put(r.possibilities, key,
                   Append(GetOr(r.possibilities, key, <<>>), rotor_offsets))
          ELSE r.possibilities,
       rotors |-> st.rotors]

\* one iteration of `for guess in ALPHABET`; the walk is evaluated once
GuessStep(mach, m, rotor_offsets, guess, r) ==
  CHOOSE next \in
    {AfterGuess(st, rotor_offsets, r) :
       st \in {RunGuess([mach EXCEPT !.rotors = r.rotors], m,
                        r.contradictions, Letter(guess))}} : TRUE

\* `for guess in ALPHABET` from the letter code `guess` on; r holds the
\* contradictions, the possibilities and the rotors of the machine.  Every
\* iteration is evaluated before the next one starts.
RECURSIVE GuessLoop(_, _, _, _, _)
GuessLoop(mach, m, rotor_offsets, guess, r) ==
  IF guess >= N THEN r
  ELSE CHOOSE out \in
         {GuessLoop(mach, m, rotor_offsets, guess + 1, next) :
            next \in {GuessStep(mach, m, rotor_offsets, guess, r)}} : TRUE

\* lines 68-71: the rotors configured for the start triple, no contradictions
CellStart(ring_settings, rotor_offsets, r) ==
  [r EXCEPT
     !.rotors = [k \in 1..Len(r.rotors) |->
                   rotor_configure(r.rotors[k], ring_settings[k],
                                   rotor_offsets[k])],
     !.contradictions = <<>>]

\* `for rotor_offsets in rotor_offset_combinations` from the triple `cell` on
RECURSIVE CellLoop(_, _, _, _, _)
CellLoop(mach, ring_settings, m, cell, r) ==
  IF cell >= MaxCells THEN r
  ELSE CHOOSE out \in
         {CellLoop(mach, ring_settings, m, cell + 1,
                   GuessLoop(mach, m, RotorOffsets(cell), 0, start)) :
            start \in {CellStart(ring_settings, RotorOffsets(cell), r)}} : TRUE

\* Bombe.run: the possibilities returned and the rotors it leaves behind
bombe_run(mach, ring_settings, m) ==
  CellLoop(mach, ring_settings, m, 0,
           [contradictions |-> <<>>, possibilities |-> <<>>,
            rotors |-> mach.rotors])

\* ------------------------------------------------------------------------
\* utils.py: score_text, the frequencies in units of 0.00001
\* ------------------------------------------------------------------------
english_frequencies ==
  [ A |-> 8167, B |-> 1492, C |-> 2202, D |-> 4253, E |-> 12702, F |-> 2228,
    G |-> 2015, H |-> 6094, I |-> 6996, J |-> 153, K |-> 1292, L |-> 4025,
    M |-> 2406, N |-> 6749, O |-> 7507, P |-> 1929, Q |-> 95, R |-> 5987,
    S |-> 6327, T |-> 9356, U |-> 2758, V |-> 978, W |-> 2560, X |-> 150,
    Y |-> 1994, Z |-> 77 ]

RECURSIVE score_text(_)
score_text(plaintext) ==
  IF plaintext = <<>> THEN 0
  ELSE english_frequencies[Head(plaintext)] + score_text(Tail(plaintext))

\* ------------------------------------------------------------------------
\* crackmessage.py: the search driver and its worker processes
\* ------------------------------------------------------------------------
MaxProcs == 3      \* search cells the driver creates a process for

BCAB == <<"B","C","A","B">>

ABCAB == <<"A","B","C","A","B">>

\* cribs.txt (one crib) and ciphertext.txt
DriverScenarios ==
  { [crib |-> ABC, ciphertext |-> BCAB],
    [crib |-> ABC, ciphertext |-> ABCAB] }

\* the wheel orders and ring settings the cell loop runs through, in its order
DriverWheelOrders == << <<"I", "II", "III">>, <<"III", "II", "I">> >>

DriverRingSettings == << <<"A","A","A">>, <<"A","E","A">> >>

\* cell i (1-based) of the loops of lines 66-77, the ring setting innermost
DriverCell(i) ==
  [names |-> DriverWheelOrders[((i - 1) \div Len(DriverRingSettings)) + 1],
   ring_setting |-> DriverRingSettings[((i - 1) % Len(DriverRingSettings)) + 1]]

\* lines 43-49: a menu for every crib position found
MenusOf(crib_, ciphertext_) ==
  LET positions == find_crib_positions(crib_, ciphertext_)
  IN  [i \in 1..Len(positions) |-> BuildMenu(crib_, ciphertext_, positions[i])]

\* lines 52-53: menus.sort(key=lambda m: -len(m['paths'])); menus[0].  The
\* sort is stable: the first menu among those with the most paths
FirstOfSorted(menus) ==
  menus[CHOOSE i \in 1..Len(menus) :
          \A j \in 1..Len(menus) :
            /\ Len(menus[j].paths) <= Len(menus[i].paths)
            /\ j < i => Len(menus[j].paths) < Len(menus[i].paths)]

\* for _ in range(menu['offset']): machine.unstep()
RECURSIVE UnstepTimes(_, _)
UnstepTimes(rs, n) == IF n <= 0 THEN rs ELSE UnstepTimes(unstep(rs), n - 1)

\* the (plugboard, rotor_offsets) pairs in the order of the loops of
\* run_bombe lines 11-13
RECURSIVE Survivors(_, _)
Survivors(possibilities, i) ==
  IF i > Len(possibilities) THEN <<>>
  ELSE [j \in 1..Len(possibilities[i].v) |->
          [plugboard |-> possibilities[i].k,
           rotor_offsets |-> possibilities[i].v[j]]]
       \o Survivors(possibilities, i + 1)

\* run_bombe lines 14-27 on the process's global `machine` and `ring_setting`
Reconstruct(mach, ring_setting, plugboard, rotor_offsets, m) ==
  LET rs == [k \in 1..Len(mach.rotors) |->
               rotor_configure(mach.rotors[k], ring_setting[k], rotor_offsets[k])]
      res == configure(mach, rs, mach.reflector,
                       [i \in 1..Len(plugboard) |-> PairOf(plugboard[i])])
  IN  IF res.raised # "none" THEN res
      ELSE [machine |-> [res.machine EXCEPT
                           !.rotors = UnstepTimes(res.machine.rotors, m.offset)],
            raised |-> "none"]

\* the loops of run_bombe lines 11-33 from survivor i on, in worker process w.
\* The list display of line 28 evaluates machine.copy() first; an exception
\* ends the process with the globals as they stand.
RECURSIVE ScoreLoop(_, _, _, _, _)
ScoreLoop(w, m, ciphertext_, survivors, i) ==
  IF i > Len(survivors) THEN w
  ELSE
    LET sv == survivors[i]
        rec == Reconstruct(w.machine, w.ring_setting, sv.plugboard,
                           sv.rotor_offsets, m)
        at == [w EXCEPT !.machine = rec.machine, !.survivor = sv]
    IN  IF rec.raised # "none" THEN [at EXCEPT !.raised = rec.raised]
        ELSE
          LET cp == copy(rec.machine)
          IN  IF cp.raised # "none" THEN [at EXCEPT !.raised = cp.raised]
              ELSE
                LET enc == encrypt(rec.machine.rotors, rec.machine.reflector,
                                   rec.machine.plugboard_pairs, ciphertext_)
                IN  ScoreLoop(
                      [at EXCEPT
                         !.machine.rotors = enc.rotors,
                         !.scores = Append(@, << [machine |-> cp.machine,
                                                  score |-> score_text(enc.ciphertext)] >>)],
                      m, ciphertext_, survivors, i + 1)

\* lines 84-86: mp.Process(target=run_bombe, args=(bomba, menu, queue)), with
\* bomba = bombe.Bombe(machine, ring_setting); the process has no globals yet
NewProcess(mach, ring_setting) ==
  [pc |-> "created",
   bomba |-> [machine |-> mach, ring_settings |-> ring_setting],
   machine |-> Unconfigured, ring_setting |-> <<>>, scores |-> <<>>,
   possibilities |-> <<>>, survivor |-> <<>>, raised |-> "none"]

\* lines 36-53: the texts are read, the menus built, the first of the sorted
\* menus chosen; menus[0] of an empty list raises IndexError
DriverMenus ==
  /\ driver.pc = "menus"
  /\ LET menus == MenusOf(crib, ciphertext)
     IN  IF menus = <<>>
         THEN /\ driver' = [driver EXCEPT !.pc = "done", !.raised = "IndexError"]
              /\ menu' = menu
         ELSE /\ driver' = [driver EXCEPT !.pc = "cells"]
              /\ menu' = FirstOfSorted(menus)
  /\ UNCHANGED <<machine, harnessVars, crib, ciphertext, crib_positions, pc,
                 bombe, workers, queue>>

\* lines 77-86: one iteration of the cell loop
DriverNewCell ==
  /\ driver.pc = "cells"
  /\ driver.cell < MaxProcs
  /\ LET c == DriverCell(driver.cell + 1)
         m == TemplateMachine(c.names)
     IN  /\ machine' = m
         /\ workers' = Append(workers, NewProcess(m, c.ring_setting))
         /\ driver' = [driver EXCEPT
                         !.cell = @ + 1,
                         !.ring_setting = c.ring_setting,
                         !.pc = IF driver.cell + 1 = MaxProcs
                                THEN "start" ELSE "cells"]
  /\ UNCHANGED <<harnessVars, menuVars, pc, bombe, queue>>

\* lines 87-88: p.start() of the next process; the child is a fork of the
\* parent and sees the module globals as they are now
DriverStart ==
  /\ driver.pc = "start"
  /\ driver.started < Len(workers)
  /\ workers' = [workers EXCEPT
                   ![driver.started + 1] =
                      [@ EXCEPT !.pc = "started",
                                !.machine = machine,
                                !.ring_setting = driver.ring_setting,
                                !.scores = driver.scores]]
  /\ driver' = [driver EXCEPT
                  !.started = @ + 1,
                  !.pc = IF driver.started + 1 = Len(workers)
                         THEN "join" ELSE "start"]
  /\ UNCHANGED <<machine, harnessVars, menuVars, pc, bombe, queue>>

\* run_bombe line 7 in process i: possibilities = bomba.run(menu, menu['paths']).
\* The Bombe of the last cell holds the very machine the global names.
WorkerRun(i) ==
  /\ workers[i].pc = "started"
  /\ LET res == bombe_run(workers[i].bomba.machine,
                          workers[i].bomba.ring_settings, menu)
     IN  workers' =
           [workers EXCEPT
              ![i] = [@ EXCEPT
                        !.pc = "ran",
                        !.possibilities = res.possibilities,
                        !.bomba.machine.rotors = res.rotors,
                        !.machine.rotors =
                           IF i = Len(workers) THEN res.rotors ELSE @]]
  /\ UNCHANGED <<machine, harnessVars, menuVars, pc, bombe, queue, driver>>

\* run_bombe lines 10-34 in process i: every survivor scored, q.put(scores),
\* and the process ends; an exception ends it before the put
WorkerScore(i) ==
  /\ workers[i].pc = "ran"
  /\ LET w == ScoreLoop(workers[i], menu, ciphertext,
                        Survivors(workers[i].possibilities, 1), 1)
     IN  /\ workers' = [workers EXCEPT ![i] = [w EXCEPT !.pc = "exited"]]
         /\ queue' = IF w.raised = "none" THEN Append(queue, w.scores)
                     ELSE queue
  /\ UNCHANGED <<machine, harnessVars, menuVars, pc, bombe, driver>>

\* lines 89-90: p.join() returns once the process has ended
DriverJoin ==
  /\ driver.pc = "join"
  /\ driver.joined < Len(workers)
  /\ workers[driver.joined + 1].pc = "exited"
  /\ driver' = [driver EXCEPT
                  !.joined = @ + 1,
                  !.pc = IF driver.joined + 1 = Len(workers)
                         THEN "drain" ELSE "join"]
  /\ UNCHANGED <<machine, harnessVars, menuVars, pc, bombe, workers, queue>>

\* scores += queue.get() for every list on the queue
RECURSIVE Concat(_)
Concat(lists) ==
  IF lists = <<>> THEN <<>> ELSE Head(lists) \o Concat(Tail(lists))

\* lines 92-93: while not queue.empty(): scores += queue.get(); every
\* process has ended, nothing is put any more.  received counts the lists
\* that queue.get() returned
DriverDrain ==
  /\ driver.pc = "drain"
  /\ driver' = [driver EXCEPT !.scores = @ \o Concat(queue),
                               !.received = Len(queue),
                               !.pc = "reduce"]
  /\ queue' = <<>>
  /\ UNCHANGED <<machine, harnessVars, menuVars, pc, bombe, workers>>

\* line 95: max(scores, key=lambda t: -t[1])[0].  max of an empty list
\* raises ValueError; every element of scores is the one-element list that
\* line 28 appended, so t[1] raises IndexError
best_machine(scores) ==
  IF scores = <<>> THEN [raised |-> "ValueError", machine |-> <<>>]
  ELSE [raised |-> "IndexError", machine |-> <<>>]

\* lines 95-99: the final reduction and the output
DriverReduce ==
  /\ driver.pc = "reduce"
  /\ LET best == best_machine(driver.scores)
     IN  driver' =
           [driver EXCEPT
              !.pc = "done",
              !.raised = best.raised,
              !.output =
                 IF best.raised = "none"
                 THEN encrypt(best.machine.rotors, best.machine.reflector,
                              best.machine.plugboard_pairs, ciphertext).ciphertext
                 ELSE <<>>]
  /\ UNCHANGED <<machine, harnessVars, menuVars, pc, bombe, workers, queue>>

InitDriver ==
  /\ \E sc \in DriverScenarios :
       /\ crib = sc.crib
       /\ ciphertext = sc.ciphertext
  /\ crib_positions = <<>>
  /\ menu = NoMenu
  /\ machine = Unconfigured
  /\ error = "none"
  /\ op = "init"
  /\ hist = NewHist(machine.rotors)
  /\ sess = NoSession
  /\ pc = "driver"
  /\ bombe = NoBombe
  /\ copied = NoCopy
  /\ workers = <<>>
  /\ queue = <<>>
  /\ driver = [NoDriver EXCEPT !.pc = "menus"]

NextDriver ==
  \/ DriverMenus
  \/ DriverNewCell
  \/ DriverStart
  \/ \E i \in 1..Len(workers) : WorkerRun(i)
  \/ \E i \in 1..Len(workers) : WorkerScore(i)
  \/ DriverJoin
  \/ DriverDrain
  \/ DriverReduce

SpecDriver == InitDriver /\ [][NextDriver]_vars

\* the steps of the parent process
DriverProcess ==
  \/ DriverMenus
  \/ DriverNewCell
  \/ DriverStart
  \/ DriverJoin
  \/ DriverDrain
  \/ DriverReduce

\* the steps of worker process i
WorkerProcess(i) == WorkerRun(i) \/ WorkerScore(i)

\* the operating system runs every process that can take a step: the parent
\* and each of the MaxProcs workers
SpecDriverFair ==
  /\ SpecDriver
  /\ WF_vars(DriverProcess)
  /\ \A i \in 1..MaxProcs : WF_vars(WorkerProcess(i))

\* ------------------------------------------------------------------------
\* Properties of the search driver
\* ------------------------------------------------------------------------
\* the largest score among the collected entries
IsMaximalEntry(i) ==
  \A j \in 1..Len(driver.scores) :
    driver.scores[j][1].score <= driver.scores[i][1].score

\* C13: once every worker has reported, the driver selects a collected
\* entry whose score is the maximum and writes the ciphertext decrypted by
\* that entry's machine
DriverSelectsMaximum ==
  driver.pc = "done" =>
    /\ driver.raised = "none"
    /\ \E i \in 1..Len(driver.scores) :
         /\ IsMaximalEntry(i)
         /\ LET m == driver.scores[i][1].machine
            IN  driver.output =
                  encrypt(m.rotors, m.reflector, m.plugboard_pairs,
                          ciphertext).ciphertext

\* the parent can take a step: join() of line 90 waits for the process to end
DriverCanStep ==
  \/ driver.pc \in {"menus", "cells", "start", "drain", "reduce"}
  \/ /\ driver.pc = "join"
     /\ workers[driver.joined + 1].pc = "exited"

\* worker i runs the Bombe or scores its survivors
WorkerCanStep(i) == workers[i].pc \in {"started", "ran"}

\* no process can take a step
Quiescent ==
  /\ ~ DriverCanStep
  /\ \A i \in 1..Len(workers) : ~ WorkerCanStep(i)

\* C23: the collect phase never deadlocks.  Every step moves one process
\* forward and no process loops, so every run with all processes scheduled
\* ends in a state where none can step; in every such state every started
\* worker has exited, every join() has returned, the parent has received the
\* result list of every worker and has been through the final reduction
CollectPhaseCompletes ==
  Quiescent =>
    /\ driver.pc = "done"
    /\ driver.started = Len(workers)
    /\ \A i \in 1..Len(workers) : workers[i].pc = "exited"
    /\ driver.joined = Len(workers)
    /\ driver.received = Len(workers)

\* C19: a machine that a worker has reconstructed for a survivor has the
\* wheel order, the reflector and the ring settings of the Bombe of that
\* worker's own cell and the survivor's start triple as rotor offsets
ReconstructsMachineOfOwnCell ==
  \A i \in 1..Len(workers) :
    workers[i].survivor # <<>> =>
      LET w == workers[i]
      IN  /\ w.machine.reflector = w.bomba.machine.reflector
          /\ \A k \in 1..Len(w.machine.rotors) :
               /\ w.machine.rotors[k].name = w.bomba.machine.rotors[k].name
               /\ w.machine.rotors[k].ring_setting =
                    Index(w.bomba.ring_settings[k])
               /\ w.machine.rotors[k].offset =
                    Index(w.survivor.rotor_offsets[k])

====
